---- MODULE Spec2Model ----
(***************************************************************************)
(* The pg_stat_statements collector of postgres_exporter, in its two       *)
(* versions:                                                               *)
(*   variant "A"  src/collector/pg_stat_statements.go  (read-only,         *)
(*                streams every row into the sink as it is read)           *)
(*   variant "B"  src/unnamed/part_000  (read-and-reset: buffers the       *)
(*                batch, closes the cursor, resets, then emits)            *)
(*                                                                         *)
(* Update is modelled step by step (one action per database/sql call or    *)
(* loop body) so that the statement executions of the database engine can  *)
(* interleave with it.  The relation `stats` is what the FROM/JOIN/WHERE   *)
(* part of the query yields; the select list is modelled column by column  *)
(* because rows.Scan depends on it.                                        *)
(*                                                                         *)
(* float64 values are fixed-point integers, in units of 1/Scale second.    *)
(***************************************************************************)
EXTENDS Integers, Sequences, FiniteSets, TLC

VARIABLES
    variant,      \* which version of the collector this instance is
    flag,         \* the command line: "unset", "true" or "false"
    enabled,      \* collector state held by the registry after init()
    stats,        \* the source relation: a sequence of rows
    pc,           \* position of Update
    cursor,       \* the *sql.Rows of the cycle
    rowMetrics,   \* variant B's buffer
    sink,         \* the observations pushed on ch in the current cycle
    ret,          \* what the last Update returned
    cycles,       \* number of cycles started
    resets,       \* reset commands issued in the current cycle
    resetFailed,  \* whether the reset command of this cycle failed
    idx,          \* rows of rowMetrics already emitted by variant B's loop
    execs,        \* number of statement executions so far
    accrued,      \* history: executions accrued per key
    accruedAtRead,\* history: `accrued` at the read of the last cycle
    reported      \* history: sum of the calls values emitted per key

vars == <<variant, flag, enabled, stats, pc, cursor, rowMetrics, sink, ret,
          cycles, resets, resetFailed, idx, execs, accrued, accruedAtRead, reported>>

(* ------------------------------ bounds --------------------------------- *)
MaxRows == 2
MaxCycles == 2
MaxExec == 1

(* ----------------------------- values ---------------------------------- *)
\* milliseconds per second: the query divides the engine's times by 1000.0
Scale == 1000

\* a column value as the driver delivers it
Null(zero) == [isNull |-> TRUE, val |-> zero]
Val(x) == [isNull |-> FALSE, val |-> x]

\* float64(n) for an int64 n, in fixed point; the conversion is exact for
\* |n| <= 2^53, and every integer of the model is far below that
Float64OfInt64(n) == n * Scale

(* ----------------------- registration, init() -------------------------- *)
statStatementsSubsystem == "stat_statements"

\* collector.go: const defaultEnabled = true
defaultEnabled == TRUE

\* registerCollector(name, isDefaultEnabled, factory): the collector's flag
\* --[no-]collector.<name> defaults to isDefaultEnabled
registerCollector(name, isDefaultEnabled, f) ==
    IF f = "unset" THEN isDefaultEnabled ELSE f = "true"

\* init() of both versions
InitHook(f) == registerCollector(statStatementsSubsystem, defaultEnabled, f)

(* ------------------------------ the query ------------------------------ *)
\* the select list of pgStatStatementsQuery
ColumnsA == <<"user", "datname", "stmt", "calls", "mean", "max",
              "blk_read", "blk_write">>
ColumnsB == <<"user", "datname", "stmt", "calls", "mean", "max", "rows",
              "blk_read", "blk_write">>
\* faulty variation: variant A's query selects rows_total as well
ColumnsWithRows(v) == ColumnsB

Columns(v) == IF v = "A" THEN ColumnsA ELSE ColumnsB

\* one result row: the selected columns of a source row, in order
Project(v, r) == [i \in 1..Len(Columns(v)) |-> r[Columns(v)[i]]]

\* the result set of db.QueryContext: a snapshot of the relation
QueryResult(v, rel) == [i \in 1..Len(rel) |-> Project(v, rel[i])]

(* ------------------------------ rows.Scan ------------------------------ *)
\* the destinations handed to rows.Scan
ScanDest == <<"user", "datname", "query", "callsTotal", "meanSecondsTotal",
              "maxSecondsTotal", "rowsTotal", "blockReadSecondsTotal",
              "blockWriteSecondsTotal">>

\* database/sql: Scan fails unless there is one destination per column
ScanArity(cols) == Len(cols) = Len(ScanDest)

\* sql.NullString / sql.NullInt64 / sql.NullFloat64 from a column value
ScanNull(c) == [Valid |-> ~c.isNull, V |-> c.val]

\* the pgStatStatementsRow a successful Scan fills
Scan(cols) == [i \in 1..Len(ScanDest) |-> ScanNull(cols[i])]

Field(row, name) == row[CHOOSE i \in 1..Len(ScanDest) : ScanDest[i] = name]

(* ---------------------------- conversion ------------------------------- *)
\* faulty variation: the label keeps the zero value of the string
LabelOfZero(ns) == ns.V

\* userLabel := "unknown"; if x.Valid { userLabel = x.String }
LabelOf(ns) == IF ns.Valid THEN ns.V ELSE "unknown"

\* m := 0.0; if x.Valid { m = float64(x.Int64) }
CounterOfInt(ni) == IF ni.Valid THEN Float64OfInt64(ni.V) ELSE 0

\* m := 0.0; if x.Valid { m = x.Float64 }
CounterOfFloat(nf) == IF nf.Valid THEN nf.V ELSE 0

Labels(row) == <<LabelOf(Field(row, "user")), LabelOf(Field(row, "datname")),
                 LabelOf(Field(row, "query"))>>

Metric(desc, value, labels) == [desc |-> desc, value |-> value, labels |-> labels]

\* faulty variation: the block write metric is not pushed
ObservationsFive(row) ==
    << Metric("calls_total", CounterOfInt(Field(row, "callsTotal")), Labels(row)),
       Metric("mean_seconds_total", CounterOfFloat(Field(row, "meanSecondsTotal")), Labels(row)),
       Metric("max_seconds_total", CounterOfFloat(Field(row, "maxSecondsTotal")), Labels(row)),
       Metric("rows_total", CounterOfInt(Field(row, "rowsTotal")), Labels(row)),
       Metric("block_read_seconds_total", CounterOfFloat(Field(row, "blockReadSecondsTotal")), Labels(row)) >>

\* the six ch <- prometheus.MustNewConstMetric(...) of one row, in order
Observations(row) ==
    << Metric("calls_total", CounterOfInt(Field(row, "callsTotal")), Labels(row)),
       Metric("mean_seconds_total", CounterOfFloat(Field(row, "meanSecondsTotal")), Labels(row)),
       Metric("max_seconds_total", CounterOfFloat(Field(row, "maxSecondsTotal")), Labels(row)),
       Metric("rows_total", CounterOfInt(Field(row, "rowsTotal")), Labels(row)),
       Metric("block_read_seconds_total", CounterOfFloat(Field(row, "blockReadSecondsTotal")), Labels(row)),
       Metric("block_write_seconds_total", CounterOfFloat(Field(row, "blockWriteSecondsTotal")), Labels(row)) >>

(* ------------------------- the source relation ------------------------- *)
NullStr == Null("")
NullNum == Null(0)

\* the row of the example scenario: mean 0.01 s, max 0.02 s, read 0.001 s
ExampleRow ==
    [user |-> Val("app"), datname |-> Val("prod"), stmt |-> Val("SELECT 1"),
     calls |-> Val(42), mean |-> Val(10), max |-> Val(20), rows |-> Val(1),
     blk_read |-> Val(1), blk_write |-> NullNum]

OtherRow ==
    [user |-> Val("bob"), datname |-> Val("test"), stmt |-> Val("SELECT 2"),
     calls |-> Val(1), mean |-> Val(5), max |-> Val(7), rows |-> Val(3),
     blk_read |-> Val(2), blk_write |-> Val(4)]

AllNullRow ==
    [user |-> NullStr, datname |-> NullStr, stmt |-> NullStr,
     calls |-> NullNum, mean |-> NullNum, max |-> NullNum, rows |-> NullNum,
     blk_read |-> NullNum, blk_write |-> NullNum]

\* the entry the engine creates at the first execution of a statement
FreshRow ==
    [user |-> Val("app"), datname |-> Val("prod"), stmt |-> Val("SELECT 3"),
     calls |-> Val(1), mean |-> Val(1), max |-> Val(1), rows |-> Val(1),
     blk_read |-> Val(0), blk_write |-> Val(0)]

SampleRows == {ExampleRow, OtherRow, AllNullRow}

\* every nullness pattern of one row, each field null or not on its own
NullPatterns ==
    [user : {Val("app"), NullStr}, datname : {Val("prod"), NullStr},
     stmt : {Val("SELECT 1"), NullStr}, calls : {Val(42), NullNum},
     mean : {Val(10), NullNum}, max : {Val(20), NullNum},
     rows : {Val(1), NullNum}, blk_read : {Val(1), NullNum},
     blk_write : {Val(3), NullNum}]

\* the time series key of a source row, as the collector labels it
KeyOf(r) ==
    << IF r.user.isNull THEN "unknown" ELSE r.user.val,
       IF r.datname.isNull THEN "unknown" ELSE r.datname.val,
       IF r.stmt.isNull THEN "unknown" ELSE r.stmt.val >>

KeysOf(rel) == {KeyOf(rel[i]) : i \in 1..Len(rel)}

\* relations of at most n rows with pairwise distinct keys
Relations(rows, n) ==
    {rel \in UNION {[1..k -> rows] : k \in 0..n} :
        \A i, j \in 1..Len(rel) : i # j => KeyOf(rel[i]) # KeyOf(rel[j])}

(* ------------------------------ history -------------------------------- *)
Get(f, k) == IF k \in DOMAIN f THEN f[k] ELSE 0

Add(f, k, n) ==
    [x \in DOMAIN f \cup {k} |-> Get(f, x) + (IF x = k THEN n ELSE 0)]

\* the executions a relation already holds
AccruedIn(rel) ==
    [k \in KeysOf(rel) |->
        LET r == rel[CHOOSE i \in 1..Len(rel) : KeyOf(rel[i]) = k]
        IN  IF r.calls.isNull THEN 0 ELSE r.calls.val]

(* ------------------------------ *sql.Rows ------------------------------ *)
NoCursor == [open |-> FALSE, rows |-> <<>>, pos |-> 0, err |-> FALSE]

\* rows, err := db.QueryContext(ctx, pgStatStatementsQuery), err == nil
Open(result) == [open |-> TRUE, rows |-> result, pos |-> 0, err |-> FALSE]

\* rows.Close()
Close(c) == [c EXCEPT !.open = FALSE]

\* rows.Next() returning false closes the rows; e is whether it was an error
NextFalse(c, e) == [c EXCEPT !.open = FALSE, !.err = e]

\* the row rows.Scan reads
Current(c) == c.rows[c.pos]

(* --------------------------- control flow ------------------------------ *)
\* faulty variation: the reset is issued from inside the read loop
AfterBodyReset == "reset"

\* the loop's back edge: after the body, rows.Next() again
AfterBody == "next"

\* faulty variation: the buffered batch is emitted straight after the read
AfterDrainEmit == "emit"

\* variant B after rows.Err() returned nil
AfterDrain == "close"

\* faulty variation: the reset's error is checked and ends the cycle
AfterResetChecked(ok) == IF ok THEN "emit" ELSE "idle"

\* variant B after db.ExecContext(ctx, pgStatStatementsReset), result dropped
AfterReset(ok) == "emit"

\* the cursor a return leaves behind: variant A runs its deferred rows.Close()
AtReturn(v, c) == IF v = "A" THEN Close(c) ELSE c

Phase ==
    CASE pc = "idle" -> "Idle"
      [] pc = "query" -> "Querying"
      [] pc \in {"next", "scan", "errcheck", "close"} -> "Buffering"
      [] pc = "reset" -> "Resetting"
      [] pc = "emit" -> "Emitting"

(* ------------------------------ initial -------------------------------- *)
InitWith(rels) ==
    /\ variant \in {"A", "B"}
    /\ flag \in {"unset", "true", "false"}
    /\ enabled = InitHook(flag)
    /\ stats \in rels
    /\ pc = "idle"
    /\ cursor = NoCursor
    /\ rowMetrics = <<>>
    /\ sink = <<>>
    /\ ret = "none"
    /\ cycles = 0
    /\ resets = 0
    /\ resetFailed = FALSE
    /\ idx = 0
    /\ execs = 0
    /\ accrued = AccruedIn(stats)
    /\ accruedAtRead = << >>
    /\ reported = << >>

Init == InitWith(Relations(SampleRows, MaxRows))

\* one row, in every nullness pattern
InitNull == InitWith({<<r>> : r \in NullPatterns})

(* ------------------------ the database engine -------------------------- *)
\* a statement already in the relation is executed once more
Execute ==
    /\ execs < MaxExec
    /\ \E i \in 1..Len(stats) :
          /\ ~stats[i].calls.isNull
          /\ stats' = [stats EXCEPT ![i].calls.val = @ + 1]
          /\ accrued' = Add(accrued, KeyOf(stats[i]), 1)
    /\ execs' = execs + 1
    /\ UNCHANGED <<variant, flag, enabled, pc, cursor, rowMetrics, sink, ret,
                   cycles, resets, resetFailed, idx, accruedAtRead, reported>>

\* a statement not in the relation is executed for the first time
ExecuteNew ==
    /\ execs < MaxExec
    /\ KeyOf(FreshRow) \notin KeysOf(stats)
    /\ stats' = Append(stats, FreshRow)
    /\ accrued' = Add(accrued, KeyOf(FreshRow), FreshRow.calls.val)
    /\ execs' = execs + 1
    /\ UNCHANGED <<variant, flag, enabled, pc, cursor, rowMetrics, sink, ret,
                   cycles, resets, resetFailed, idx, accruedAtRead, reported>>

(* ------------------------------- Update -------------------------------- *)
\* the scheduler calls Update of an enabled collector, one cycle at a time
StartCycle ==
    /\ pc = "idle"
    /\ enabled
    /\ cycles < MaxCycles
    /\ cycles' = cycles + 1
    /\ pc' = "query"
    /\ rowMetrics' = <<>>
    /\ sink' = <<>>
    /\ ret' = "running"
    /\ resets' = 0
    /\ resetFailed' = FALSE
    /\ idx' = 0
    /\ UNCHANGED <<variant, flag, enabled, stats, cursor, execs, accrued,
                   accruedAtRead, reported>>

\* db.QueryContext fails: return err
QueryFail ==
    /\ pc = "query"
    /\ pc' = "idle"
    /\ ret' = "query"
    /\ UNCHANGED <<variant, flag, enabled, stats, cursor, rowMetrics, sink,
                   cycles, resets, resetFailed, idx, execs, accrued,
                   accruedAtRead, reported>>

\* db.QueryContext succeeds: the cursor holds a snapshot of the relation
QueryOk ==
    /\ pc = "query"
    /\ cursor' = Open(QueryResult(variant, stats))
    /\ accruedAtRead' = accrued
    /\ pc' = "next"
    /\ UNCHANGED <<variant, flag, enabled, stats, rowMetrics, sink, ret,
                   cycles, resets, resetFailed, idx, execs, accrued, reported>>

\* rows.Next() returns true
NextRow ==
    /\ pc = "next"
    /\ cursor.pos < Len(cursor.rows)
    /\ cursor' = [cursor EXCEPT !.pos = @ + 1]
    /\ pc' = "scan"
    /\ UNCHANGED <<variant, flag, enabled, stats, rowMetrics, sink, ret,
                   cycles, resets, resetFailed, idx, execs, accrued,
                   accruedAtRead, reported>>

\* rows.Next() returns false at the end of the result set
NextEnd ==
    /\ pc = "next"
    /\ cursor.pos = Len(cursor.rows)
    /\ cursor' = NextFalse(cursor, FALSE)
    /\ pc' = "errcheck"
    /\ UNCHANGED <<variant, flag, enabled, stats, rowMetrics, sink, ret,
                   cycles, resets, resetFailed, idx, execs, accrued,
                   accruedAtRead, reported>>

\* rows.Next() returns false on an error (cancelled context, lost connection)
NextError ==
    /\ pc = "next"
    /\ cursor' = NextFalse(cursor, TRUE)
    /\ pc' = "errcheck"
    /\ UNCHANGED <<variant, flag, enabled, stats, rowMetrics, sink, ret,
                   cycles, resets, resetFailed, idx, execs, accrued,
                   accruedAtRead, reported>>

\* rows.Scan fails on the destination count, before any column is decoded:
\* return err
ScanArityFail ==
    /\ pc = "scan"
    /\ ~ScanArity(Current(cursor))
    /\ cursor' = AtReturn(variant, cursor)
    /\ pc' = "idle"
    /\ ret' = "scan-arity"
    /\ UNCHANGED <<variant, flag, enabled, stats, rowMetrics, sink, cycles,
                   resets, resetFailed, idx, execs, accrued, accruedAtRead,
                   reported>>

\* rows.Scan fails on a column the driver cannot convert: return err
ScanConvertFail ==
    /\ pc = "scan"
    /\ ScanArity(Current(cursor))
    /\ cursor' = AtReturn(variant, cursor)
    /\ pc' = "idle"
    /\ ret' = "scan-convert"
    /\ UNCHANGED <<variant, flag, enabled, stats, rowMetrics, sink, cycles,
                   resets, resetFailed, idx, execs, accrued, accruedAtRead,
                   reported>>

\* rows.Scan succeeds; variant A pushes the row, variant B buffers it
ScanOk ==
    /\ pc = "scan"
    /\ ScanArity(Current(cursor))
    /\ LET row == Scan(Current(cursor))
       IN  IF variant = "A"
           THEN /\ sink' = sink \o Observations(row)
                /\ reported' = Add(reported, Labels(row),
                                   CounterOfInt(Field(row, "callsTotal")))
                /\ UNCHANGED rowMetrics
           ELSE /\ rowMetrics' = Append(rowMetrics, row)
                /\ UNCHANGED <<sink, reported>>
    /\ pc' = AfterBody
    /\ UNCHANGED <<variant, flag, enabled, stats, cursor, ret, cycles, resets,
                   resetFailed, idx, execs, accrued, accruedAtRead>>

\* rows.Err() is not nil: return err
RowsErrFail ==
    /\ pc = "errcheck"
    /\ cursor.err
    /\ cursor' = AtReturn(variant, cursor)
    /\ pc' = "idle"
    /\ ret' = "iteration"
    /\ UNCHANGED <<variant, flag, enabled, stats, rowMetrics, sink, cycles,
                   resets, resetFailed, idx, execs, accrued, accruedAtRead,
                   reported>>

\* rows.Err() is nil: variant A returns nil, variant B goes on
RowsErrNil ==
    /\ pc = "errcheck"
    /\ ~cursor.err
    /\ IF variant = "A"
       THEN /\ cursor' = AtReturn(variant, cursor)
            /\ pc' = "idle"
            /\ ret' = "nil"
       ELSE /\ pc' = AfterDrain
            /\ UNCHANGED <<cursor, ret>>
    /\ UNCHANGED <<variant, flag, enabled, stats, rowMetrics, sink, cycles,
                   resets, resetFailed, idx, execs, accrued, accruedAtRead,
                   reported>>

\* variant B: rows.Close()
CloseRows ==
    /\ pc = "close"
    /\ cursor' = Close(cursor)
    /\ pc' = "reset"
    /\ UNCHANGED <<variant, flag, enabled, stats, rowMetrics, sink, ret,
                   cycles, resets, resetFailed, idx, execs, accrued,
                   accruedAtRead, reported>>

\* variant B: db.ExecContext(ctx, pgStatStatementsReset) empties the relation
ResetOk ==
    /\ pc = "reset"
    /\ stats' = <<>>
    /\ resets' = resets + 1
    /\ pc' = AfterReset(TRUE)
    /\ UNCHANGED <<variant, flag, enabled, cursor, rowMetrics, sink, ret, cycles,
                   resetFailed, idx, execs, accrued, accruedAtRead, reported>>

\* variant B: the reset command fails; its error is dropped
ResetFail ==
    /\ pc = "reset"
    /\ resets' = resets + 1
    /\ resetFailed' = TRUE
    /\ pc' = AfterReset(FALSE)
    /\ UNCHANGED <<variant, flag, enabled, stats, cursor, rowMetrics, sink,
                   ret, cycles, idx, execs, accrued, accruedAtRead, reported>>

\* variant B: one iteration of `for _, row := range rowMetrics`
EmitRow ==
    /\ pc = "emit"
    /\ idx < Len(rowMetrics)
    /\ LET row == rowMetrics[idx + 1]
       IN  /\ sink' = sink \o Observations(row)
           /\ reported' = Add(reported, Labels(row),
                              CounterOfInt(Field(row, "callsTotal")))
    /\ idx' = idx + 1
    /\ UNCHANGED <<variant, flag, enabled, stats, pc, cursor, rowMetrics, ret,
                   cycles, resets, resetFailed, execs, accrued, accruedAtRead>>

\* variant B: the loop is over, return nil
EmitDone ==
    /\ pc = "emit"
    /\ idx = Len(rowMetrics)
    /\ pc' = "idle"
    /\ ret' = "nil"
    /\ UNCHANGED <<variant, flag, enabled, stats, cursor, rowMetrics, sink,
                   cycles, resets, resetFailed, idx, execs, accrued,
                   accruedAtRead, reported>>

Next ==
    \/ Execute
    \/ ExecuteNew
    \/ StartCycle
    \/ QueryFail
    \/ QueryOk
    \/ NextRow
    \/ NextEnd
    \/ NextError
    \/ ScanArityFail
    \/ ScanConvertFail
    \/ ScanOk
    \/ RowsErrFail
    \/ RowsErrNil
    \/ CloseRows
    \/ ResetOk
    \/ ResetFail
    \/ EmitRow
    \/ EmitDone

Spec == Init /\ [][Next]_vars

SpecNull == InitNull /\ [][Next]_vars

(***************************************************************************)
(* What the sink must hold, stated from the column values of the result    *)
(* set rather than from the collector's own conversion.                    *)
(***************************************************************************)
Col(v, res, name) == res[CHOOSE i \in 1..Len(Columns(v)) : Columns(v)[i] = name]

ExpLabel(c) == IF c.isNull THEN "unknown" ELSE c.val
ExpInt(c) == IF c.isNull THEN 0 ELSE c.val * Scale
ExpFloat(c) == IF c.isNull THEN 0 ELSE c.val

ExpLabels(v, res) ==
    <<ExpLabel(Col(v, res, "user")), ExpLabel(Col(v, res, "datname")),
      ExpLabel(Col(v, res, "stmt"))>>

MetricOrder ==
    <<"calls_total", "mean_seconds_total", "max_seconds_total", "rows_total",
      "block_read_seconds_total", "block_write_seconds_total">>

ExpValues(v, res) ==
    <<ExpInt(Col(v, res, "calls")), ExpFloat(Col(v, res, "mean")),
      ExpFloat(Col(v, res, "max")), ExpInt(Col(v, res, "rows")),
      ExpFloat(Col(v, res, "blk_read")), ExpFloat(Col(v, res, "blk_write"))>>

ExpRow(v, res) ==
    [j \in 1..Len(MetricOrder) |->
        [desc |-> MetricOrder[j], value |-> ExpValues(v, res)[j],
         labels |-> ExpLabels(v, res)]]

RECURSIVE ExpBatch(_, _)
ExpBatch(v, result) ==
    IF result = <<>> THEN <<>>
    ELSE ExpRow(v, Head(result)) \o ExpBatch(v, Tail(result))

PerRow == Len(MetricOrder)
Failures == {"query", "iteration", "scan-arity", "scan-convert"}

(* ------------------------------- claims -------------------------------- *)

\* C1: in variant B the reset command is reached only once every row of the
\* result set has been read and buffered and the cursor of the cycle is
\* closed; the reset never runs against an open cursor.
C1_ResetAfterDrain ==
    pc = "reset" =>
        /\ variant = "B"
        /\ ~cursor.open
        /\ cursor.pos = Len(cursor.rows)
        /\ Len(rowMetrics) = Len(cursor.rows)

C1_Witness ==
    /\ pc = "reset"
    /\ Len(cursor.rows) = 2
    /\ Len(rowMetrics) = 2
    /\ ~cursor.open

\* C2: in variant B, when the reset command fails the cycle goes on to emit:
\* it returns nil having pushed the observations of every row of the
\* pre-reset read, the same ones a successful reset would have left.
C2_ResetFailureIsolated ==
    resetFailed =>
        /\ variant = "B"
        /\ pc \in {"emit", "idle"}
        /\ pc = "idle" =>
              /\ ret = "nil"
              /\ sink = ExpBatch(variant, cursor.rows)

C2_Witness ==
    /\ resetFailed
    /\ pc = "idle"
    /\ ret = "nil"
    /\ Len(cursor.rows) = 2
    /\ Len(sink) = 2 * PerRow
    /\ stats # <<>>

\* C3: in variant B, after every successful cycle, for every key the sum of
\* the calls values emitted over all cycles equals the executions accrued in
\* the source up to the read of that cycle.
C3_NoLossNoDoubleCount ==
    (variant = "B" /\ pc = "idle" /\ ret = "nil") =>
        \A k \in DOMAIN accruedAtRead \cup DOMAIN reported :
            Get(reported, k) = Get(accruedAtRead, k) * Scale

\* C4: Update never returns with the cursor it opened still open.
C4_CursorClosedAtReturn ==
    pc = "idle" => ~cursor.open

\* C5: a cycle that fails has pushed nothing: whenever Update has returned
\* an error (query, scan or iteration), the sink of that cycle is empty.
C5_NoEmissionOnFailure ==
    ret \in Failures => (pc = "idle" /\ sink = <<>>)

C5_Witness ==
    /\ variant = "B"
    /\ ret = "scan-convert"
    /\ cursor.pos = 2
    /\ Len(rowMetrics) = 1
    /\ sink = <<>>

\* C6: a successful cycle over a result of N rows has pushed exactly 6*N
\* observations, six per row in the order calls, mean, max, rows, block
\* read, block write, the rows in read order; none when N = 0.
C6_SixPerRow ==
    (pc = "idle" /\ ret = "nil") =>
        /\ Len(sink) = 6 * Len(cursor.rows)
        /\ \A i \in 1..Len(cursor.rows) : \A j \in 1..6 :
              /\ sink[6 * (i - 1) + j].desc = MetricOrder[j]
              /\ sink[6 * (i - 1) + j].labels = ExpLabels(variant, cursor.rows[i])

C6_Witness ==
    /\ pc = "idle"
    /\ ret = "nil"
    /\ Len(cursor.rows) = 2
    /\ Len(sink) = 12

\* C7: every emitted row carries, field by field, "unknown" for a null label
\* and the label itself otherwise, 0 for a null number and the number itself
\* otherwise; and a row is emitted whatever its nulls, once it is scanned.
C7_NullDefaults ==
    /\ \A i \in 1..(Len(sink) \div 6) :
          LET src == cursor.rows[i]
              o(j) == sink[6 * (i - 1) + j]
          IN  /\ \A j \in 1..6 :
                    /\ o(j).labels[1] = ExpLabel(Col(variant, src, "user"))
                    /\ o(j).labels[2] = ExpLabel(Col(variant, src, "datname"))
                    /\ o(j).labels[3] = ExpLabel(Col(variant, src, "stmt"))
              /\ o(1).value = ExpInt(Col(variant, src, "calls"))
              /\ o(2).value = ExpFloat(Col(variant, src, "mean"))
              /\ o(3).value = ExpFloat(Col(variant, src, "max"))
              /\ o(4).value = ExpInt(Col(variant, src, "rows"))
              /\ o(5).value = ExpFloat(Col(variant, src, "blk_read"))
              /\ o(6).value = ExpFloat(Col(variant, src, "blk_write"))
    /\ (pc = "idle" /\ ret = "nil") => Len(sink) = 6 * Len(cursor.rows)

C7_Witness ==
    /\ pc = "idle"
    /\ ret = "nil"
    /\ Len(sink) = 6
    /\ Col(variant, cursor.rows[1], "user").isNull
    /\ ~Col(variant, cursor.rows[1], "datname").isNull
    /\ Col(variant, cursor.rows[1], "stmt").isNull
    /\ Col(variant, cursor.rows[1], "calls").isNull
    /\ ~Col(variant, cursor.rows[1], "mean").isNull
    /\ ~Col(variant, cursor.rows[1], "rows").isNull
    /\ sink[1].labels = <<"unknown", "prod", "unknown">>
    /\ sink[1].value = 0
    /\ sink[4].value = 1000

\* C8: in each variant, a cycle that reads exactly the row of the example
\* scenario and meets no failure of the database decodes the row, returns
\* nil and pushes the six counters 42, 0.01, 0.02, 1, 0.001, 0 labelled
\* (app, prod, SELECT 1).
ExampleEmission ==
    [j \in 1..6 |->
        [desc |-> MetricOrder[j],
         value |-> <<42000, 10, 20, 1000, 1, 0>>[j],
         labels |-> <<"app", "prod", "SELECT 1">>]]

C8_ExampleScenario ==
    ( /\ pc = "idle"
      /\ cursor.rows = <<Project(variant, ExampleRow)>>
      /\ ret \notin {"none", "query", "iteration", "scan-convert"} ) =>
        /\ ret = "nil"
        /\ sink = ExampleEmission

\* C9: unless the command line enables it, the reset-capable collector runs
\* no cycle, and so issues no reset.
C9_DisabledByDefault ==
    (variant = "B" /\ flag # "true") => (cycles = 0 /\ pc = "idle" /\ resets = 0)

\* C10: variant B moves Idle, Querying, Buffering, Resetting, Emitting, Idle;
\* a failure while Querying or Buffering leads to Idle with an error, nothing
\* pushed, no reset issued and the source untouched; Buffering is left for
\* Resetting only when the read drained without error; the reset is issued
\* once, from Resetting, before anything is pushed, and whether it fails or
\* not the next phase is Emitting; a cycle returns nil only from Emitting.
PhaseOrder ==
    {<<"Idle", "Idle">>, <<"Idle", "Querying">>,
     <<"Querying", "Querying">>, <<"Querying", "Buffering">>,
     <<"Querying", "Idle">>,
     <<"Buffering", "Buffering">>, <<"Buffering", "Resetting">>,
     <<"Buffering", "Idle">>,
     <<"Resetting", "Resetting">>, <<"Resetting", "Emitting">>,
     <<"Emitting", "Emitting">>, <<"Emitting", "Idle">>}

PhaseStep ==
    variant = "B" =>
        /\ <<Phase, Phase'>> \in PhaseOrder
        /\ (Phase \in {"Querying", "Buffering"} /\ Phase' = "Idle") =>
              /\ ret' \in Failures
              /\ sink' = <<>>
              /\ resets' = 0
              /\ stats' = stats
        /\ (Phase = "Buffering" /\ Phase' = "Resetting") =>
              /\ ~cursor.err
              /\ cursor.pos = Len(cursor.rows)
        /\ (Phase = "Resetting" /\ Phase' = "Emitting") =>
              /\ resets = 0
              /\ resets' = 1
              /\ sink' = <<>>
        /\ resets' # resets =>
              \/ Phase = "Idle" /\ Phase' = "Querying" /\ resets' = 0
              \/ Phase = "Resetting" /\ Phase' = "Emitting"
        /\ sink' # sink =>
              \/ Phase = "Idle" /\ Phase' = "Querying" /\ sink' = <<>>
              \/ Phase = "Emitting" /\ resets = 1
        /\ (Phase = "Emitting" /\ Phase' = "Idle") =>
              /\ ret' = "nil"
              /\ resets = 1

C10_PhaseOrder == [][PhaseStep]_vars

C10_Witness ==
    /\ variant = "B"
    /\ cycles = 2
    /\ pc = "idle"
    /\ ret = "nil"
    /\ resets = 1
    /\ ~resetFailed
    /\ sink # <<>>

====
